---- MODULE Spec2Model ----
(***************************************************************************)
(* State-machine model of cublog::replicator                               *)
(* (src/transaction/log_replication.cpp): the producer daemon that walks   *)
(* the log from m_redo_lsa towards nxio_lsa, the dispatch of each record   *)
(* (inline redo or a job for the parallel redo engine), the workers of the *)
(* engine, the minimum-lsa monitor and the two blocking waits.             *)
(*                                                                         *)
(* LSAs are integers: the record at LSA i is log[i + 1], and a well-formed *)
(* record's forw_lsa is the LSA of the record that follows it.             *)
(***************************************************************************)
EXTENDS Integers, Sequences, FiniteSets, TLC

VARIABLES
  log,               \* the records the primary has appended so far
  well_formed_log,   \* environment: every record's forw_lsa advances
  replication_parallel, \* PRM_ID_REPLICATION_PARALLEL_COUNT read by the constructor
  m_redo_lsa,        \* replicator::m_redo_lsa
  end_redo_lsa,      \* the nxio_lsa snapshot handed to redo_upto
  p_pc,              \* position of the producer daemon
  redo_count,        \* how many times in a row the record at m_redo_lsa was decoded
  m_redo_lsa_mutex,  \* "free" or "waiter" (the producer's critical section is one step)
  outer_lsa,         \* minimum_log_lsa_monitor: the value given to set_for_outer
  queue,             \* redo_parallel: jobs added and not yet claimed, in add order
  in_progress,       \* redo_parallel: the job each worker is executing
  pages,             \* buffer pool: per page, its LSA, the redos applied, the stats
  dbextern_done,     \* LSAs of the DBEXTERN records whose redo handler has run
  perf_delay,        \* LSAs of the records for which a REDO_REPL_DELAY sample exists
  mvcc_next_id,      \* log_Gl.hdr.mvcc_next_id
  fatal,             \* NoFatal, or the place and record of a fatal error
  w_pc,              \* position of the client thread that calls the two waits
  w_target,          \* a_target_lsa of the client's wait_past_target_lsa call
  w_seen_nxio,       \* nxio_lsa read when the shutdown wait's predicate held
  d_pc,              \* position of the thread that runs replicator::~replicator
  engine_state,      \* redo_parallel: "adding", "adding_finished" or "terminated"
  scratch_allocated  \* the buffers of m_undo_unzip and m_redo_unzip are allocated

vars == << log, well_formed_log, replication_parallel, m_redo_lsa, end_redo_lsa,
           p_pc, redo_count, m_redo_lsa_mutex, outer_lsa, queue, in_progress,
           pages, dbextern_done, perf_delay, mvcc_next_id, fatal,
           w_pc, w_target, w_seen_nxio, d_pc, engine_state, scratch_allocated >>

\* what only the destructor writes
destructor_vars == << d_pc, engine_state, scratch_allocated >>

(***************************************************************************)
(* Bounds of the model.                                                    *)
(***************************************************************************)
MaxLog == 2
NWorkers == 2
MaxMvccid == 2
MaxRedo == 2

(***************************************************************************)
(* Program constants.                                                      *)
(***************************************************************************)
NO_ERROR == 0
ER_FAILED == -1
MVCCID_NULL == 0
NULL_LSA == -1
start_redo_lsa == 0
MAX_LSA == MaxLog + 1
SENTINEL_VPID == [volid |-> -2, pageid |-> -2]
NULL_VPID == [volid |-> -1, pageid |-> -1]

Workers == 1..NWorkers
NoJob == [kind |-> "none"]
NoFatal == [where |-> "none", lsa |-> NULL_LSA]

\* mutant: a type the switch does not handle is given to read_and_redo_record
GenericRedoTypes_and_crash_recovery ==
  { "LOG_REDO_DATA", "LOG_MVCC_REDO_DATA", "LOG_UNDOREDO_DATA",
    "LOG_DIFF_UNDOREDO_DATA", "LOG_MVCC_UNDOREDO_DATA",
    "LOG_MVCC_DIFF_UNDOREDO_DATA", "LOG_RUN_POSTPONE", "LOG_COMPENSATE",
    "LOG_DUMMY_CRASH_RECOVERY" }

\* record types switched on by redo_upto
GenericRedoTypes ==
  { "LOG_REDO_DATA", "LOG_MVCC_REDO_DATA", "LOG_UNDOREDO_DATA",
    "LOG_DIFF_UNDOREDO_DATA", "LOG_MVCC_UNDOREDO_DATA",
    "LOG_MVCC_DIFF_UNDOREDO_DATA", "LOG_RUN_POSTPONE", "LOG_COMPENSATE" }
DoneTimeTypes == { "LOG_COMMIT", "LOG_ABORT", "LOG_DUMMY_HA_SERVER_STATE" }

\* pages of the database the log's records touch
Vpids == { [volid |-> 1, pageid |-> 7], [volid |-> 1, pageid |-> 8] }
RootBtid == [vfid |-> [volid |-> 1, fileid |-> 10], root_pageid |-> 7]
NoBtid == [vfid |-> [volid |-> -1, fileid |-> -1], root_pageid |-> -1]
NoStats == [num_keys |-> 0, num_oids |-> 0, num_nulls |-> 0]
SomeStats == [num_keys |-> 5, num_oids |-> 10, num_nulls |-> 0]

(***************************************************************************)
(* The log: what the primary appends and the reader decodes.               *)
(***************************************************************************)
LogRecord(type, vpid, mvccid, rcvindex, btid, stats, at_time, forw) ==
  [ type |-> type, forw_lsa |-> forw, vpid |-> vpid, mvccid |-> mvccid,
    rcvindex |-> rcvindex, btid |-> btid, stats |-> stats, at_time |-> at_time ]

\* the records the primary may append at LSA lsa, each with forw_lsa = forw
AppendableRecords(forw) ==
       { LogRecord("LOG_REDO_DATA", v, MVCCID_NULL, "RV_GENERIC", NoBtid, NoStats, 0, forw) :
           v \in Vpids }
  \cup { LogRecord("LOG_MVCC_REDO_DATA", [volid |-> 1, pageid |-> 8], m, "RV_GENERIC",
                   NoBtid, NoStats, 0, forw) : m \in 1..MaxMvccid }
  \cup { LogRecord("LOG_REDO_DATA", NULL_VPID, MVCCID_NULL,
                   "RVBT_LOG_GLOBAL_UNIQUE_STATS_COMMIT", RootBtid, SomeStats, 0, forw) }
  \cup { LogRecord("LOG_DBEXTERN_REDO_DATA", NULL_VPID, MVCCID_NULL, "RV_GENERIC",
                   NoBtid, NoStats, 0, forw) }
  \cup { LogRecord("LOG_COMMIT", NULL_VPID, MVCCID_NULL, "RV_GENERIC",
                   NoBtid, NoStats, t, forw) : t \in {-1, 5} }
  \cup { LogRecord("LOG_DUMMY_CRASH_RECOVERY", NULL_VPID, MVCCID_NULL, "RV_GENERIC",
                   NoBtid, NoStats, 0, forw) }

\* log_Gl.append.get_nxio_lsa (): the position after the last appended record
get_nxio_lsa == start_redo_lsa + Len(log)

\* log_reader: the record header found at an LSA
RecordAt(lsa) == log[lsa - start_redo_lsa + 1]

\* LSAs of the records appended so far
LogLsas == start_redo_lsa .. (get_nxio_lsa - 1)

(***************************************************************************)
(* Redo of one record against the buffer pool.                             *)
(***************************************************************************)
EmptyPage == [lsa |-> NULL_LSA, applied |-> << >>, stats |-> NoStats]

\* log_rv_redo_record_sync: the recovery redo handler applied to the record's page
log_rv_redo_record_sync(pgs, vpid, rcv_lsa) ==
  [pgs EXCEPT ![vpid] = [@ EXCEPT !.lsa = rcv_lsa, !.applied = Append(@, rcv_lsa)]]

\* mutant: the root page's LSA is not set to the record's LSA
btree_root_update_stats_no_set_lsa(pgs, root_vpid, stats, record_lsa) ==
  [pgs EXCEPT ![root_vpid] = [lsa |-> @.lsa,
                              applied |-> Append(@.applied, record_lsa),
                              stats |-> stats]]

\* btree_root_update_stats + pgbuf_set_lsa + pgbuf_set_dirty_and_free on a fixed root page
btree_root_update_stats(pgs, root_vpid, stats, record_lsa) ==
  [pgs EXCEPT ![root_vpid] = [lsa |-> record_lsa,
                              applied |-> Append(@.applied, record_lsa),
                              stats |-> stats]]

\* VPID root_vpid = { btid.root_pageid, btid.vfid.volid }
root_vpid_of(btid) == [volid |-> btid.vfid.volid, pageid |-> btid.root_pageid]

\* replicate_btree_stats: fix the root page (fatal when it cannot be fixed), update it
replicate_btree_stats(root_vpid, stats, record_lsa) ==
  \/ /\ pages' = btree_root_update_stats(pages, root_vpid, stats, record_lsa)
     /\ fatal' = fatal
  \/ /\ fatal' = [where |-> "cublog::replicate_btree_stats", lsa |-> record_lsa]
     /\ pages' = pages

\* log_rpl_calculate_replication_delay: the value returned and whether a sample is set
log_rpl_calculate_replication_delay(a_start_time_msec) ==
  IF a_start_time_msec > 0
    THEN [res |-> NO_ERROR, sample |-> TRUE]
    ELSE [res |-> ER_FAILED, sample |-> FALSE]

(***************************************************************************)
(* MVCC.                                                                   *)
(***************************************************************************)
MvccTypes == { "LOG_MVCC_REDO_DATA", "LOG_MVCC_UNDOREDO_DATA",
               "LOG_MVCC_DIFF_UNDOREDO_DATA" }
log_rv_get_log_rec_mvccid(log_rec) ==
  IF log_rec.type \in MvccTypes THEN log_rec.mvccid ELSE MVCCID_NULL
MVCC_ID_PRECEDES(id1, id2) == id1 < id2
MVCCID_FORWARD(id) == id + 1

\* mutant: the MVCCID_FORWARD of line 324 is left out
mvcc_next_id_after_no_forward(log_rec, next_id) ==
  LET mvccid == log_rv_get_log_rec_mvccid(log_rec) IN
  IF mvccid # MVCCID_NULL /\ ~MVCC_ID_PRECEDES(mvccid, next_id)
    THEN mvccid
    ELSE next_id

\* lines 320-325 of read_and_redo_record: the new value of log_Gl.hdr.mvcc_next_id
mvcc_next_id_after(log_rec, next_id) ==
  LET mvccid == log_rv_get_log_rec_mvccid(log_rec) IN
  IF mvccid # MVCCID_NULL /\ ~MVCC_ID_PRECEDES(mvccid, next_id)
    THEN MVCCID_FORWARD(mvccid)
    ELSE next_id

(***************************************************************************)
(* The parallel redo engine and the minimum-lsa monitor.                   *)
(***************************************************************************)
\* mutant: the constructor never creates the engine and the monitor
m_parallel_replication_redo_never == FALSE

\* m_parallel_replication_redo != nullptr: the engine and the monitor exist
m_parallel_replication_redo == replication_parallel > 0

Job(kind, vpid, log_lsa, stats, start_time_msec) ==
  [ kind |-> kind, vpid |-> vpid, log_lsa |-> log_lsa, stats |-> stats,
    start_time_msec |-> start_time_msec ]

RunningJobs == { in_progress[w] : w \in Workers } \ { NoJob }
QueuedJobs == { queue[i] : i \in 1..Len(queue) }

SetMin(S) == CHOOSE x \in S : \A y \in S : x <= y

\* minimum_log_lsa_monitor::get: the least of the outer value and the jobs in flight
get_minimum ==
  SetMin({outer_lsa} \cup { j.log_lsa : j \in QueuedJobs \cup RunningJobs })

\* redo_parallel: the engine has no job queued and no job in execution
engine_is_idle == queue = << >> /\ RunningJobs = {}

\* redo_parallel: the queued job at index i may be taken by a worker
Claimable(i) ==
  \/ queue[i].vpid = SENTINEL_VPID
  \/ /\ \A k \in 1..(i - 1) : queue[k].vpid # queue[i].vpid
     /\ \A j \in RunningJobs : j.vpid # queue[i].vpid

RemoveAt(s, i) == SubSeq(s, 1, i - 1) \o SubSeq(s, i + 1, Len(s))

InitReplicator ==
  /\ log = << >>
  /\ replication_parallel \in {0, NWorkers}
  /\ m_redo_lsa = start_redo_lsa
  /\ end_redo_lsa = start_redo_lsa
  /\ p_pc = "looper"
  /\ redo_count = 0
  /\ m_redo_lsa_mutex = "free"
  /\ outer_lsa = MAX_LSA
  /\ queue = << >>
  /\ in_progress = [w \in Workers |-> NoJob]
  /\ pages = [v \in Vpids |-> EmptyPage]
  /\ dbextern_done = {}
  /\ perf_delay = {}
  /\ mvcc_next_id = 1
  /\ fatal = NoFatal
  /\ w_pc = "none"
  /\ w_target = NULL_LSA
  /\ w_seen_nxio = NULL_LSA
  /\ d_pc = "none"
  /\ engine_state = "adding"
  /\ scratch_allocated = TRUE

\* the log is well formed: every record's forw_lsa is the LSA of the next record
Init == well_formed_log = TRUE /\ InitReplicator

\* the log may hold a record whose forw_lsa is its own LSA
InitMalformed == well_formed_log = FALSE /\ InitReplicator

(***************************************************************************)
(* The primary: appends a record and moves nxio_lsa past it.               *)
(***************************************************************************)
AppendRecord ==
  /\ fatal = NoFatal
  /\ UNCHANGED destructor_vars
  /\ Len(log) < MaxLog
  /\ \E forw \in (IF well_formed_log THEN {get_nxio_lsa + 1}
                                     ELSE {get_nxio_lsa, get_nxio_lsa + 1}) :
       \E rec \in AppendableRecords(forw) : log' = Append(log, rec)
  /\ UNCHANGED << well_formed_log, replication_parallel, m_redo_lsa, end_redo_lsa, p_pc,
                  redo_count, m_redo_lsa_mutex, outer_lsa, queue, in_progress, pages,
                  dbextern_done, perf_delay, mvcc_next_id, fatal, w_pc, w_target,
                  w_seen_nxio >>

(***************************************************************************)
(* Dispatch of one record by the producer (the switch of redo_upto).       *)
(***************************************************************************)
\* log_rv_redo_record_sync_or_dispatch_async
log_rv_redo_record_sync_or_dispatch_async(log_rec, rcv_lsa) ==
  /\ IF m_parallel_replication_redo
       THEN /\ queue' = Append(queue, Job("redo", log_rec.vpid, rcv_lsa, NoStats, 0))
            /\ pages' = pages
       ELSE /\ pages' = log_rv_redo_record_sync(pages, log_rec.vpid, rcv_lsa)
            /\ queue' = queue
  /\ fatal' = fatal

\* mutant: the change is applied immediately even when the engine exists
read_and_redo_btree_stats_inline(rec_lsa, log_rec) ==
  \/ /\ fatal' = [where |-> "replicator::read_and_redo_btree_stats", lsa |-> rec_lsa]
     /\ UNCHANGED << queue, pages >>
  \/ /\ replicate_btree_stats(root_vpid_of(log_rec.btid), log_rec.stats, rec_lsa)
     /\ queue' = queue

\* mutant: the job is created but never added to the engine
read_and_redo_btree_stats_no_add(rec_lsa, log_rec) ==
  \/ /\ fatal' = [where |-> "replicator::read_and_redo_btree_stats", lsa |-> rec_lsa]
     /\ UNCHANGED << queue, pages >>
  \/ IF m_parallel_replication_redo
       THEN UNCHANGED << queue, pages, fatal >>
       ELSE /\ replicate_btree_stats(root_vpid_of(log_rec.btid), log_rec.stats, rec_lsa)
            /\ queue' = queue

\* replicator::read_and_redo_btree_stats
read_and_redo_btree_stats(rec_lsa, log_rec) ==
  \/ \* log_rv_get_log_rec_redo_data fails
     /\ fatal' = [where |-> "replicator::read_and_redo_btree_stats", lsa |-> rec_lsa]
     /\ UNCHANGED << queue, pages >>
  \/ LET root_vpid == root_vpid_of(log_rec.btid) IN
     IF m_parallel_replication_redo
       THEN /\ queue' = Append(queue, Job("btree_stats", root_vpid, rec_lsa, log_rec.stats, 0))
            /\ UNCHANGED << pages, fatal >>
       ELSE /\ replicate_btree_stats(root_vpid, log_rec.stats, rec_lsa)
            /\ queue' = queue

\* replicator::read_and_redo_record
read_and_redo_record(rec_lsa) ==
  LET log_rec == RecordAt(rec_lsa) IN
  /\ mvcc_next_id' = mvcc_next_id_after(log_rec, mvcc_next_id)
  /\ IF log_rec.rcvindex = "RVBT_LOG_GLOBAL_UNIQUE_STATS_COMMIT"
       THEN read_and_redo_btree_stats(rec_lsa, log_rec)
       ELSE log_rv_redo_record_sync_or_dispatch_async(log_rec, rec_lsa)
  /\ UNCHANGED << dbextern_done, perf_delay >>

\* mutant: the record falls to the default case and its handler is not run
redo_dbextern_skipped(rec_lsa) ==
  UNCHANGED << dbextern_done, mvcc_next_id, queue, pages, perf_delay, fatal >>

\* case LOG_DBEXTERN_REDO_DATA: log_rv_redo_record with RV_fun[rcvindex].redofun
redo_dbextern(rec_lsa) ==
  /\ dbextern_done' = dbextern_done \cup {rec_lsa}
  /\ UNCHANGED << mvcc_next_id, queue, pages, perf_delay, fatal >>

\* mutant: in async mode the producer also computes the delay when it dispatches
calculate_replication_delay_or_dispatch_async_eager(rec_lsa) ==
  LET start_time_msec == RecordAt(rec_lsa).at_time IN
  /\ perf_delay' = IF log_rpl_calculate_replication_delay(start_time_msec).sample
                     THEN perf_delay \cup {rec_lsa} ELSE perf_delay
  /\ queue' = IF replication_parallel > 0
                THEN Append(queue, Job("repl_delay", SENTINEL_VPID, m_redo_lsa, NoStats,
                                       start_time_msec))
                ELSE queue
  /\ UNCHANGED << mvcc_next_id, pages, dbextern_done, fatal >>

\* replicator::calculate_replication_delay_or_dispatch_async
calculate_replication_delay_or_dispatch_async(rec_lsa) ==
  LET start_time_msec == RecordAt(rec_lsa).at_time IN
  /\ IF m_parallel_replication_redo
       THEN /\ queue' = Append(queue, Job("repl_delay", SENTINEL_VPID, m_redo_lsa, NoStats,
                                          start_time_msec))
            /\ perf_delay' = perf_delay
       ELSE /\ perf_delay' =
                 IF log_rpl_calculate_replication_delay(start_time_msec).sample
                   THEN perf_delay \cup {rec_lsa} ELSE perf_delay
            /\ queue' = queue
  /\ UNCHANGED << mvcc_next_id, pages, dbextern_done, fatal >>

(***************************************************************************)
(* The producer daemon.                                                    *)
(***************************************************************************)
\* mutant: the loop test is <= instead of <
redo_upto_loop_inclusive(redo_lsa, end_lsa) ==
  IF redo_lsa <= end_lsa THEN "fetch" ELSE "looper"

\* while (m_redo_lsa < end_redo_lsa) of redo_upto: where the producer goes next
redo_upto_loop(redo_lsa, end_lsa) == IF redo_lsa < end_lsa THEN "fetch" ELSE "looper"

\* replicator::redo_upto_nxio_lsa: read nxio_lsa, enter redo_upto or break
redo_upto_nxio_lsa ==
  /\ fatal = NoFatal
  /\ UNCHANGED destructor_vars
  /\ p_pc = "looper"
  /\ IF m_redo_lsa < get_nxio_lsa
       THEN /\ end_redo_lsa' = get_nxio_lsa
            /\ p_pc' = "fetch"
       ELSE UNCHANGED << end_redo_lsa, p_pc >>
  /\ UNCHANGED << log, well_formed_log, replication_parallel, m_redo_lsa, redo_count,
                  m_redo_lsa_mutex, outer_lsa, queue, in_progress, pages, dbextern_done,
                  perf_delay, mvcc_next_id, fatal, w_pc, w_target, w_seen_nxio >>

\* redo_upto: position the reader at m_redo_lsa and copy the record header
redo_upto_read_header ==
  /\ fatal = NoFatal
  /\ UNCHANGED destructor_vars
  /\ p_pc = "fetch"
  /\ m_redo_lsa \in LogLsas
  /\ redo_count < MaxRedo
  /\ redo_count' = redo_count + 1
  /\ p_pc' = "dispatch"
  /\ UNCHANGED << log, well_formed_log, replication_parallel, m_redo_lsa, end_redo_lsa,
                  m_redo_lsa_mutex, outer_lsa, queue, in_progress, pages, dbextern_done,
                  perf_delay, mvcc_next_id, fatal, w_pc, w_target, w_seen_nxio >>

\* redo_upto: switch (header.type)
redo_upto_dispatch ==
  /\ fatal = NoFatal
  /\ UNCHANGED destructor_vars
  /\ p_pc = "dispatch"
  /\ LET type == RecordAt(m_redo_lsa).type IN
       CASE type \in GenericRedoTypes -> read_and_redo_record(m_redo_lsa)
         [] type = "LOG_DBEXTERN_REDO_DATA" -> redo_dbextern(m_redo_lsa)
         [] type \in DoneTimeTypes ->
              calculate_replication_delay_or_dispatch_async(m_redo_lsa)
         [] OTHER -> UNCHANGED << mvcc_next_id, queue, pages, dbextern_done, perf_delay,
                                  fatal >>
  /\ p_pc' = IF fatal' = NoFatal THEN "set_redo_lsa" ELSE p_pc
  /\ UNCHANGED << log, well_formed_log, replication_parallel, m_redo_lsa, end_redo_lsa,
                  redo_count, m_redo_lsa_mutex, outer_lsa, in_progress, w_pc, w_target,
                  w_seen_nxio >>

\* mutant: m_redo_lsa is written without taking m_redo_lsa_mutex
redo_upto_set_redo_lsa_no_mutex ==
  /\ fatal = NoFatal
  /\ UNCHANGED destructor_vars
  /\ p_pc = "set_redo_lsa"
  /\ m_redo_lsa' = RecordAt(m_redo_lsa).forw_lsa
  /\ redo_count' = IF m_redo_lsa' = m_redo_lsa THEN redo_count ELSE 0
  /\ p_pc' = IF replication_parallel > 0 THEN "set_for_outer" ELSE "notify_all"
  /\ UNCHANGED << log, well_formed_log, replication_parallel, end_redo_lsa,
                  m_redo_lsa_mutex, outer_lsa, queue, in_progress, pages, dbextern_done,
                  perf_delay, mvcc_next_id, fatal, w_pc, w_target, w_seen_nxio >>

\* redo_upto: under m_redo_lsa_mutex, m_redo_lsa = header.forw_lsa
redo_upto_set_redo_lsa ==
  /\ fatal = NoFatal
  /\ UNCHANGED destructor_vars
  /\ p_pc = "set_redo_lsa"
  /\ m_redo_lsa_mutex = "free"
  /\ m_redo_lsa' = RecordAt(m_redo_lsa).forw_lsa
  /\ redo_count' = IF m_redo_lsa' = m_redo_lsa THEN redo_count ELSE 0
  /\ p_pc' = IF m_parallel_replication_redo THEN "set_for_outer" ELSE "notify_all"
  /\ UNCHANGED << log, well_formed_log, replication_parallel, end_redo_lsa,
                  m_redo_lsa_mutex, outer_lsa, queue, in_progress, pages, dbextern_done,
                  perf_delay, mvcc_next_id, fatal, w_pc, w_target, w_seen_nxio >>

\* redo_upto: m_minimum_log_lsa->set_for_outer (m_redo_lsa)
redo_upto_set_for_outer ==
  /\ fatal = NoFatal
  /\ UNCHANGED destructor_vars
  /\ p_pc = "set_for_outer"
  /\ outer_lsa' = m_redo_lsa
  /\ p_pc' = "notify_all"
  /\ UNCHANGED << log, well_formed_log, replication_parallel, m_redo_lsa, end_redo_lsa,
                  redo_count, m_redo_lsa_mutex, queue, in_progress, pages, dbextern_done,
                  perf_delay, mvcc_next_id, fatal, w_target, w_pc, w_seen_nxio >>

\* redo_upto: m_redo_lsa_condvar.notify_all (), then the loop test
redo_upto_notify_all ==
  /\ fatal = NoFatal
  /\ UNCHANGED destructor_vars
  /\ p_pc = "notify_all"
  /\ w_pc' = CASE w_pc = "shutdown_blocked" -> "shutdown_lock"
               [] w_pc = "target_blocked" -> "target_lock"
               [] OTHER -> w_pc
  /\ p_pc' = redo_upto_loop(m_redo_lsa, end_redo_lsa)
  /\ UNCHANGED << log, well_formed_log, replication_parallel, m_redo_lsa, end_redo_lsa,
                  redo_count, m_redo_lsa_mutex, outer_lsa, queue, in_progress, pages,
                  dbextern_done, perf_delay, mvcc_next_id, fatal, w_target, w_seen_nxio >>

(***************************************************************************)
(* The workers of the parallel redo engine.                                *)
(***************************************************************************)
\* identical workers: the idle worker of least index takes the next job
FirstIdleWorker(w) ==
  /\ in_progress[w] = NoJob
  /\ \A u \in Workers : u < w => in_progress[u] # NoJob

\* a worker takes a queued job; the monitor now counts it as in progress
WorkerClaim ==
  /\ fatal = NoFatal
  /\ UNCHANGED destructor_vars
  /\ \E w \in Workers : \E i \in 1..Len(queue) :
       /\ FirstIdleWorker(w)
       /\ Claimable(i)
       /\ in_progress' = [in_progress EXCEPT ![w] = queue[i]]
       /\ queue' = RemoveAt(queue, i)
  /\ UNCHANGED << log, well_formed_log, replication_parallel, m_redo_lsa, end_redo_lsa,
                  p_pc, redo_count, m_redo_lsa_mutex, outer_lsa, pages, dbextern_done,
                  perf_delay, mvcc_next_id, fatal, w_pc, w_target, w_seen_nxio >>

\* redo_job_replication_delay_impl::execute: the value it returns
redo_job_replication_delay_impl_result(job) ==
  log_rpl_calculate_replication_delay(job.start_time_msec).res

\* redo_job_replication_delay_impl::execute: the sample it sets
redo_job_replication_delay_impl_execute(job) ==
  /\ perf_delay' = IF log_rpl_calculate_replication_delay(job.start_time_msec).sample
                     THEN perf_delay \cup {job.log_lsa} ELSE perf_delay
  /\ pages' = pages

\* redo_parallel: a job whose execute returns an error is fatal for the engine
engine_on_result(job, res) ==
  IF res # NO_ERROR THEN [where |-> "redo_parallel", lsa |-> job.log_lsa] ELSE fatal

\* redo_job_btree_stats::execute
redo_job_btree_stats_execute(job) ==
  /\ replicate_btree_stats(job.vpid, job.stats, job.log_lsa)
  /\ perf_delay' = perf_delay

\* the generic redo job: the record's redo handler on the job's page
redo_job_impl_execute(job) ==
  /\ pages' = log_rv_redo_record_sync(pages, job.vpid, job.log_lsa)
  /\ perf_delay' = perf_delay

\* a worker executes the job it holds and retracts it from the monitor
WorkerExecute ==
  /\ fatal = NoFatal
  /\ UNCHANGED destructor_vars
  /\ \E w \in Workers :
       /\ in_progress[w] # NoJob
       /\ LET job == in_progress[w] IN
            CASE job.kind = "redo" ->
                   /\ redo_job_impl_execute(job)
                   /\ fatal' = engine_on_result(job, NO_ERROR)
              [] job.kind = "btree_stats" ->
                   redo_job_btree_stats_execute(job)
              [] job.kind = "repl_delay" ->
                   /\ redo_job_replication_delay_impl_execute(job)
                   /\ fatal' = engine_on_result(job,
                                  redo_job_replication_delay_impl_result(job))
       /\ in_progress' = IF fatal' = NoFatal THEN [in_progress EXCEPT ![w] = NoJob]
                                            ELSE in_progress
  /\ UNCHANGED << log, well_formed_log, replication_parallel, m_redo_lsa, end_redo_lsa,
                  p_pc, redo_count, m_redo_lsa_mutex, outer_lsa, queue, dbextern_done,
                  mvcc_next_id, w_pc, w_target, w_seen_nxio >>

(***************************************************************************)
(* The client thread: the two blocking waits.                              *)
(***************************************************************************)
\* mutant: the function returns without calling wait_for_idle
shutdown_check_no_wait_for_idle ==
  IF m_redo_lsa >= get_nxio_lsa
    THEN /\ w_seen_nxio' = get_nxio_lsa
         /\ w_pc' = "shutdown_done" /\ m_redo_lsa_mutex' = "free"
    ELSE /\ w_pc' = "shutdown_blocked"
         /\ UNCHANGED << w_seen_nxio, m_redo_lsa_mutex >>

\* mutant: the predicate of the shutdown wait is m_redo_lsa > nxio_lsa
shutdown_check_strict ==
  IF m_redo_lsa > get_nxio_lsa
    THEN /\ w_seen_nxio' = get_nxio_lsa
         /\ IF replication_parallel > 0
              THEN w_pc' = "shutdown_wait_for_idle" /\ m_redo_lsa_mutex' = "waiter"
              ELSE w_pc' = "shutdown_done" /\ m_redo_lsa_mutex' = "free"
    ELSE /\ w_pc' = "shutdown_blocked"
         /\ UNCHANGED << w_seen_nxio, m_redo_lsa_mutex >>

\* the predicate of wait_replication_finish_during_shutdown, evaluated with the mutex
\* held: go on (to wait_for_idle when the engine exists), or block on the condvar
shutdown_check ==
  IF m_redo_lsa >= get_nxio_lsa
    THEN /\ w_seen_nxio' = get_nxio_lsa
         /\ IF m_parallel_replication_redo
              THEN w_pc' = "shutdown_wait_for_idle" /\ m_redo_lsa_mutex' = "waiter"
              ELSE w_pc' = "shutdown_done" /\ m_redo_lsa_mutex' = "free"
    ELSE /\ w_pc' = "shutdown_blocked"
         /\ UNCHANGED << w_seen_nxio, m_redo_lsa_mutex >>

\* replicator::wait_replication_finish_during_shutdown: the call, or a wake-up
wait_replication_finish_during_shutdown ==
  /\ fatal = NoFatal
  /\ UNCHANGED destructor_vars
  /\ d_pc = "none"
  /\ w_pc \in {"none", "shutdown_lock"}
  /\ m_redo_lsa_mutex = "free"
  /\ shutdown_check
  /\ UNCHANGED << log, well_formed_log, replication_parallel, m_redo_lsa, end_redo_lsa,
                  p_pc, redo_count, outer_lsa, queue, in_progress, pages, dbextern_done,
                  perf_delay, mvcc_next_id, fatal, w_target >>

\* m_parallel_replication_redo->wait_for_idle () returns; the function returns
shutdown_wait_for_idle ==
  /\ fatal = NoFatal
  /\ UNCHANGED destructor_vars
  /\ w_pc = "shutdown_wait_for_idle"
  /\ engine_is_idle
  /\ w_pc' = "shutdown_done"
  /\ m_redo_lsa_mutex' = "free"
  /\ UNCHANGED << log, well_formed_log, replication_parallel, m_redo_lsa, end_redo_lsa,
                  p_pc, redo_count, outer_lsa, queue, in_progress, pages, dbextern_done,
                  perf_delay, mvcc_next_id, fatal, w_target, w_seen_nxio >>

\* mutant: the predicate of the sync branch is m_redo_lsa >= a_target_lsa
target_check_inclusive(a_target_lsa) == m_redo_lsa >= a_target_lsa

\* the predicate of the sync branch of wait_past_target_lsa
target_check(a_target_lsa) == m_redo_lsa > a_target_lsa

\* replicator::wait_past_target_lsa, sync branch: the call, or a wake-up
wait_past_target_lsa_sync ==
  /\ fatal = NoFatal
  /\ UNCHANGED destructor_vars
  /\ d_pc = "none"
  /\ ~m_parallel_replication_redo
  /\ m_redo_lsa_mutex = "free"
  /\ \/ /\ w_pc = "none"
        /\ \E a_target_lsa \in start_redo_lsa .. (start_redo_lsa + MaxLog - 1) :
             w_target' = a_target_lsa
     \/ /\ w_pc = "target_lock"
        /\ w_target' = w_target
  /\ w_pc' = IF target_check(w_target') THEN "target_done" ELSE "target_blocked"
  /\ UNCHANGED << log, well_formed_log, replication_parallel, m_redo_lsa, end_redo_lsa,
                  p_pc, redo_count, m_redo_lsa_mutex, outer_lsa, queue, in_progress, pages,
                  dbextern_done, perf_delay, mvcc_next_id, fatal, w_seen_nxio >>

\* replicator::wait_past_target_lsa, async branch: the call
wait_past_target_lsa_async ==
  /\ fatal = NoFatal
  /\ UNCHANGED destructor_vars
  /\ d_pc = "none"
  /\ m_parallel_replication_redo
  /\ w_pc = "none"
  /\ \E a_target_lsa \in start_redo_lsa .. (start_redo_lsa + MaxLog - 1) :
       w_target' = a_target_lsa
  /\ w_pc' = "target_monitor"
  /\ UNCHANGED << log, well_formed_log, replication_parallel, m_redo_lsa, end_redo_lsa,
                  p_pc, redo_count, m_redo_lsa_mutex, outer_lsa, queue, in_progress, pages,
                  dbextern_done, perf_delay, mvcc_next_id, fatal, w_seen_nxio >>

\* minimum_log_lsa_monitor::wait_past_target_lsa returns: the minimum is past the target
monitor_wait_past_target_lsa ==
  /\ fatal = NoFatal
  /\ UNCHANGED destructor_vars
  /\ w_pc = "target_monitor"
  /\ get_minimum > w_target
  /\ w_pc' = "target_done"
  /\ UNCHANGED << log, well_formed_log, replication_parallel, m_redo_lsa, end_redo_lsa,
                  p_pc, redo_count, m_redo_lsa_mutex, outer_lsa, queue, in_progress, pages,
                  dbextern_done, perf_delay, mvcc_next_id, fatal, w_target, w_seen_nxio >>

\* the client has returned from its wait and may call again
ClientReturn ==
  /\ fatal = NoFatal
  /\ UNCHANGED destructor_vars
  /\ w_pc \in {"shutdown_done", "target_done"}
  /\ w_pc' = "none"
  /\ w_target' = NULL_LSA
  /\ w_seen_nxio' = NULL_LSA
  /\ UNCHANGED << log, well_formed_log, replication_parallel, m_redo_lsa, end_redo_lsa,
                  p_pc, redo_count, m_redo_lsa_mutex, outer_lsa, queue, in_progress, pages,
                  dbextern_done, perf_delay, mvcc_next_id, fatal >>

(***************************************************************************)
(* Destruction: replicator::~replicator and the retirement of the daemon.  *)
(***************************************************************************)
\* what the destructor and the retiring daemon leave alone
replication_vars ==
  << log, well_formed_log, replication_parallel, m_redo_lsa, end_redo_lsa, redo_count,
     m_redo_lsa_mutex, outer_lsa, queue, in_progress, pages, dbextern_done, perf_delay,
     mvcc_next_id, fatal, w_pc, w_target, w_seen_nxio >>

\* ~replicator is entered, by the owner and with no client inside a wait:
\* destroy_daemon asks the daemon to stop
destroy_daemon_stop ==
  /\ fatal = NoFatal
  /\ d_pc = "none"
  /\ w_pc = "none"
  /\ d_pc' = "destroy_daemon"
  /\ UNCHANGED << p_pc, engine_state, scratch_allocated >>
  /\ UNCHANGED replication_vars

\* the daemon's loop: redo_upto_nxio_lsa has returned (m_redo_lsa reached nxio_lsa)
\* and the stop request is seen; the task is retired
daemon_retire ==
  /\ fatal = NoFatal
  /\ p_pc = "looper"
  /\ d_pc = "destroy_daemon"
  /\ ~(m_redo_lsa < get_nxio_lsa)
  /\ p_pc' = "retire"
  /\ UNCHANGED destructor_vars
  /\ UNCHANGED replication_vars

\* replicator::conclude_task_execution: wait_for_idle when the engine exists
conclude_task_execution ==
  /\ fatal = NoFatal
  /\ p_pc = "retire"
  /\ m_parallel_replication_redo => engine_is_idle
  /\ p_pc' = "stopped"
  /\ UNCHANGED destructor_vars
  /\ UNCHANGED replication_vars

\* mutant: the destructor goes on without waiting for the daemon's thread to end
daemon_is_stopped_unchecked == TRUE

\* destroy_daemon returns once the daemon's thread has ended
daemon_is_stopped == p_pc = "stopped"

\* ~replicator: destroy_daemon has returned
destroy_daemon_join ==
  /\ fatal = NoFatal
  /\ d_pc = "destroy_daemon"
  /\ daemon_is_stopped
  /\ d_pc' = IF m_parallel_replication_redo THEN "set_adding_finished" ELSE "free_scratch"
  /\ UNCHANGED << p_pc, engine_state, scratch_allocated >>
  /\ UNCHANGED replication_vars

\* ~replicator: m_parallel_replication_redo->set_adding_finished ()
set_adding_finished ==
  /\ fatal = NoFatal
  /\ d_pc = "set_adding_finished"
  /\ engine_state' = "adding_finished"
  /\ d_pc' = "wait_for_termination"
  /\ UNCHANGED << p_pc, scratch_allocated >>
  /\ UNCHANGED replication_vars

\* ~replicator: wait_for_termination_and_stop_execution () returns when the workers
\* have executed every job and ended
wait_for_termination_and_stop_execution ==
  /\ fatal = NoFatal
  /\ d_pc = "wait_for_termination"
  /\ engine_is_idle
  /\ engine_state' = "terminated"
  /\ d_pc' = "free_scratch"
  /\ UNCHANGED << p_pc, scratch_allocated >>
  /\ UNCHANGED replication_vars

\* ~replicator: log_zip_free_data of m_undo_unzip and m_redo_unzip; the destructor ends
free_scratch ==
  /\ fatal = NoFatal
  /\ d_pc = "free_scratch"
  /\ scratch_allocated' = FALSE
  /\ d_pc' = "destroyed"
  /\ UNCHANGED << p_pc, engine_state >>
  /\ UNCHANGED replication_vars

Next ==
  \/ AppendRecord
  \/ redo_upto_nxio_lsa
  \/ redo_upto_read_header
  \/ redo_upto_dispatch
  \/ redo_upto_set_redo_lsa
  \/ redo_upto_set_for_outer
  \/ redo_upto_notify_all
  \/ WorkerClaim
  \/ WorkerExecute
  \/ wait_replication_finish_during_shutdown
  \/ shutdown_wait_for_idle
  \/ wait_past_target_lsa_sync
  \/ wait_past_target_lsa_async
  \/ monitor_wait_past_target_lsa
  \/ ClientReturn
  \/ destroy_daemon_stop
  \/ daemon_retire
  \/ conclude_task_execution
  \/ destroy_daemon_join
  \/ set_adding_finished
  \/ wait_for_termination_and_stop_execution
  \/ free_scratch

Spec == Init /\ [][Next]_vars

SpecMalformed == InitMalformed /\ [][Next]_vars

\* the daemon's thread, the workers' threads and the thread inside the shutdown wait
\* are scheduled: a step of theirs that stays enabled is taken
Fairness ==
  /\ WF_vars(redo_upto_nxio_lsa)
  /\ WF_vars(redo_upto_read_header)
  /\ WF_vars(redo_upto_dispatch)
  /\ WF_vars(redo_upto_set_redo_lsa)
  /\ WF_vars(redo_upto_set_for_outer)
  /\ WF_vars(redo_upto_notify_all)
  /\ WF_vars(WorkerClaim)
  /\ WF_vars(WorkerExecute)
  /\ WF_vars(w_pc = "shutdown_lock" /\ wait_replication_finish_during_shutdown)
  /\ WF_vars(shutdown_wait_for_idle)

SpecFair == Init /\ [][Next]_vars /\ Fairness

(***************************************************************************)
(* Vocabulary of the properties.                                           *)
(***************************************************************************)
IsStatsRecord(rec) ==
  rec.type \in GenericRedoTypes /\ rec.rcvindex = "RVBT_LOG_GLOBAL_UNIQUE_STATS_COMMIT"
IsPageRecord(rec) == rec.type \in GenericRedoTypes

\* the page a page-bound record changes
TouchedPage(rec) == IF IsStatsRecord(rec) THEN root_vpid_of(rec.btid) ELSE rec.vpid

\* the record at lsa, when it changes a page, has been applied to that page
RecordApplied(lsa) ==
  IsPageRecord(RecordAt(lsa)) => pages[TouchedPage(RecordAt(lsa))].lsa >= lsa

\* the producer has dispatched the record at lsa
Dispatched(lsa) ==
  lsa < m_redo_lsa \/ (lsa = m_redo_lsa /\ p_pc = "set_redo_lsa")

\* the record at lsa is in the producer's hands or in the engine
Outstanding(lsa) ==
  \/ lsa = m_redo_lsa /\ p_pc = "dispatch"
  \/ \E j \in QueuedJobs \cup RunningJobs : j.log_lsa = lsa

IsIncreasing(seq) == \A i, k \in 1..Len(seq) : i < k => seq[i] < seq[k]

(***************************************************************************)
(* C1: in every step m_redo_lsa does not decrease and stays at or below    *)
(* the nxio_lsa snapshot given to redo_upto, which is at or below          *)
(* nxio_lsa; redo_upto returns with m_redo_lsa equal to the snapshot, and  *)
(* when redo_upto_nxio_lsa finds nothing to redo, m_redo_lsa = nxio_lsa    *)
(* (the assertion of line 164).                                            *)
(***************************************************************************)
C1_RedoLsaNeverOvershoots ==
  [][ /\ m_redo_lsa <= m_redo_lsa'
      /\ m_redo_lsa' <= end_redo_lsa'
      /\ end_redo_lsa' <= get_nxio_lsa'
      /\ (p_pc # "looper" /\ p_pc' = "looper") => m_redo_lsa' = end_redo_lsa'
      /\ (p_pc' = "looper" /\ ~(m_redo_lsa' < get_nxio_lsa')) =>
            m_redo_lsa' = get_nxio_lsa' ]_vars

\* the producer has caught up with a log of at least two records
C1_Witness ==
  /\ p_pc = "looper"
  /\ m_redo_lsa >= start_redo_lsa + 2
  /\ m_redo_lsa = get_nxio_lsa

(***************************************************************************)
(* C2: in async mode, a job on a page is never in execution while a job    *)
(* of lower rec_lsa on the same page is still queued or in execution, and  *)
(* the redos applied to each page are in increasing rec_lsa order.         *)
(***************************************************************************)
C2_PerPageOrder ==
  m_parallel_replication_redo =>
    /\ \A j2 \in RunningJobs : \A j1 \in QueuedJobs \cup RunningJobs :
         ~(j2.vpid # SENTINEL_VPID /\ j1.vpid = j2.vpid /\ j1.log_lsa < j2.log_lsa)
    /\ \A v \in Vpids : IsIncreasing(pages[v].applied)

\* a worker executes the second job of a page after the first has been applied
C2_Witness ==
  /\ m_parallel_replication_redo
  /\ \E j \in RunningJobs :
       /\ j.vpid \in Vpids
       /\ pages[j.vpid].applied # << >>
       /\ pages[j.vpid].lsa < j.log_lsa

(***************************************************************************)
(* C3: in async mode, when wait_past_target_lsa(L) returns, every record   *)
(* with lsa <= L that changes a page has been applied to it.               *)
(***************************************************************************)
C3_WaitPastTargetApplied ==
  [][ (w_pc = "target_monitor" /\ w_pc' = "target_done") =>
        \A lsa \in LogLsas : lsa <= w_target => RecordApplied(lsa) ]_vars

(***************************************************************************)
(* C4: in async mode no record below the monitor's minimum is outstanding: *)
(* decoded and not yet dispatched, queued, or in execution.                *)
(***************************************************************************)
C4_NothingOutstandingBelowMinimum ==
  m_parallel_replication_redo =>
    \A lsa \in LogLsas : lsa < get_minimum => ~Outstanding(lsa)

(***************************************************************************)
(* C5: in async mode the monitor's minimum is at most m_redo_lsa.          *)
(***************************************************************************)
C5_MinimumAtMostRedoLsa ==
  m_parallel_replication_redo => get_minimum <= m_redo_lsa

\* the client returns from wait_replication_finish_during_shutdown in this step
ShutdownReturns == w_pc # "shutdown_done" /\ w_pc' = "shutdown_done"

(***************************************************************************)
(* C6 as claimed: wait_replication_finish_during_shutdown returns in a     *)
(* state where m_redo_lsa equals nxio_lsa and, in async mode, the engine   *)
(* is idle; the call changes nothing in the engine.                        *)
(***************************************************************************)
C6_ShutdownReturnsAtNxio ==
  [][ /\ ShutdownReturns =>
           /\ m_redo_lsa' = get_nxio_lsa'
           /\ m_parallel_replication_redo => engine_is_idle'
      /\ w_pc' # w_pc => (queue' = queue /\ in_progress' = in_progress) ]_vars

(***************************************************************************)
(* C6 amended: wait_replication_finish_during_shutdown returns only after  *)
(* it has seen, with the mutex held, m_redo_lsa >= nxio_lsa; at the return *)
(* m_redo_lsa is still the nxio_lsa it saw (nxio_lsa itself may have moved *)
(* on), in async mode the engine is idle, and every record below the       *)
(* nxio_lsa it saw has been applied; the call changes nothing in the       *)
(* engine.                                                                 *)
(***************************************************************************)
C6_ShutdownReturnsAtObservedNxio ==
  [][ /\ ShutdownReturns =>
           /\ m_redo_lsa' = w_seen_nxio'
           /\ w_seen_nxio' <= get_nxio_lsa'
           /\ m_parallel_replication_redo => engine_is_idle'
           /\ \A lsa \in LogLsas : lsa < w_seen_nxio' => RecordApplied(lsa)'
      /\ w_pc' # w_pc => (queue' = queue /\ in_progress' = in_progress) ]_vars

\* async: the client has returned after the engine applied a record it waited for
C6_Witness ==
  /\ m_parallel_replication_redo
  /\ w_pc = "shutdown_done"
  /\ w_seen_nxio > start_redo_lsa
  /\ \E v \in Vpids : pages[v].applied # << >>

(***************************************************************************)
(* C7: mvcc_next_id never decreases, changes only to mvccid + 1 of the     *)
(* record being dispatched, and is greater than every non-null MVCCID of   *)
(* a record the producer has dispatched.                                   *)
(***************************************************************************)
C7_MvccNextIdAboveSeen ==
  [][ /\ mvcc_next_id <= mvcc_next_id'
      /\ mvcc_next_id' # mvcc_next_id =>
           mvcc_next_id' = log_rv_get_log_rec_mvccid(RecordAt(m_redo_lsa)) + 1
      /\ \A lsa \in LogLsas :
           (Dispatched(lsa))' =>
             \/ log_rv_get_log_rec_mvccid(RecordAt(lsa)) = MVCCID_NULL
             \/ log_rv_get_log_rec_mvccid(RecordAt(lsa)) < mvcc_next_id' ]_vars

\* a record whose MVCCID precedes mvcc_next_id was dispatched after one that raised it
C7_Witness ==
  /\ Len(log) >= 2
  /\ Dispatched(start_redo_lsa + 1)
  /\ log_rv_get_log_rec_mvccid(log[1]) = 2
  /\ log_rv_get_log_rec_mvccid(log[2]) = 1
  /\ mvcc_next_id = 3

(***************************************************************************)
(* C8: after a record whose forw_lsa is its own LSA the loop does not go   *)
(* on (the replicator is in the fatal state), and no record is decoded     *)
(* twice.                                                                  *)
(***************************************************************************)
C8_NonAdvancingRecordIsFatal ==
  /\ redo_count <= 1
  /\ (redo_count = 1 /\ p_pc \notin {"dispatch", "set_redo_lsa"}) => fatal # NoFatal

(***************************************************************************)
(* C9: a COMMIT, ABORT or DUMMY_HA_SERVER_STATE record with                *)
(* start_time_msec <= 0 yields no REDO_REPL_DELAY sample and no fatal      *)
(* error, in the producer or in the worker that executes its job.          *)
(***************************************************************************)
C9_BogusTimestampSkipped ==
  \A lsa \in LogLsas :
    (RecordAt(lsa).type \in DoneTimeTypes /\ RecordAt(lsa).at_time <= 0) =>
      /\ lsa \notin perf_delay
      /\ fatal.lsa # lsa

\* the redo of one record in a sequential replay of the log
ReplayRecord(pgs, lsa) ==
  LET rec == RecordAt(lsa) IN
  IF IsStatsRecord(rec)
    THEN btree_root_update_stats(pgs, root_vpid_of(rec.btid), rec.stats, lsa)
    ELSE IF IsPageRecord(rec) THEN log_rv_redo_record_sync(pgs, rec.vpid, lsa) ELSE pgs

RECURSIVE SequentialReplay(_, _)
SequentialReplay(pgs, lsa) ==
  IF lsa >= get_nxio_lsa THEN pgs
  ELSE SequentialReplay(ReplayRecord(pgs, lsa), RecordAt(lsa).forw_lsa)

Quiescent ==
  /\ fatal = NoFatal
  /\ p_pc = "looper"
  /\ ~(m_redo_lsa < get_nxio_lsa)
  /\ engine_is_idle

(***************************************************************************)
(* C10: when the producer has nothing left to redo and the engine is idle, *)
(* the pages are those of a sequential replay of the log from              *)
(* start_redo_lsa and m_redo_lsa is the end of the log, whatever the       *)
(* parallelism and the interleaving of the workers.                        *)
(***************************************************************************)
C10_ReplayIsDeterministic ==
  Quiescent =>
    /\ pages = SequentialReplay([v \in Vpids |-> EmptyPage], start_redo_lsa)
    /\ m_redo_lsa = start_redo_lsa + Len(log)

\* async: the engine has drained two jobs on the same page
C10_Witness ==
  /\ Quiescent
  /\ m_parallel_replication_redo
  /\ \E v \in Vpids : Len(pages[v].applied) >= 2

\* every job the producer added for a record below lsa has been executed
JobsExecutedBelow(lsa) ==
  \A l \in LogLsas : l < lsa =>
    /\ RecordApplied(l)
    /\ (RecordAt(l).type \in DoneTimeTypes /\ RecordAt(l).at_time > 0) => l \in perf_delay

(***************************************************************************)
(* C11: the destructor closes the engine's input only after the producer   *)
(* daemon has stopped, terminates the engine only after closing its input  *)
(* and when no job is left, and releases the scratch buffers last; no job  *)
(* is added once the input is closed, and when the destructor completes    *)
(* the engine is idle and every job added for a dispatched record has been *)
(* executed.                                                               *)
(***************************************************************************)
C11_DestructionOrder ==
  [][ /\ (engine_state = "adding" /\ engine_state' # "adding") =>
           (p_pc = "stopped" /\ engine_state' = "adding_finished")
      /\ (engine_state # "terminated" /\ engine_state' = "terminated") =>
           (engine_state = "adding_finished" /\ engine_is_idle)
      /\ (scratch_allocated /\ ~scratch_allocated') =>
           /\ p_pc = "stopped"
           /\ replication_parallel > 0 => engine_state = "terminated"
      /\ engine_state # "adding" => \A j \in QueuedJobs' : j \in QueuedJobs
      /\ d_pc' = "destroyed" =>
           /\ ~scratch_allocated'
           /\ engine_is_idle'
           /\ JobsExecutedBelow(m_redo_lsa)' ]_vars

\* async: the destructor has completed after the engine applied a record
C11_Witness ==
  /\ d_pc = "destroyed"
  /\ replication_parallel > 0
  /\ engine_state = "terminated"
  /\ \E v \in Vpids : pages[v].applied # << >>

(***************************************************************************)
(* C12: while the log is empty (nxio_lsa = start_redo_lsa) the producer    *)
(* never enters redo_upto, m_redo_lsa stays start_redo_lsa, the engine has *)
(* no job, and wait_replication_finish_during_shutdown never blocks on the *)
(* condition variable; in async mode its wait_for_idle finds the engine    *)
(* idle.                                                                   *)
(***************************************************************************)
C12_EmptyLogNothingToDo ==
  log = << >> =>
    /\ m_redo_lsa = start_redo_lsa
    /\ p_pc \in {"looper", "retire", "stopped"}
    /\ engine_is_idle
    /\ w_pc \notin {"shutdown_blocked", "shutdown_lock"}
    /\ w_pc = "shutdown_wait_for_idle" => engine_is_idle

\* async: the shutdown wait has returned on an empty log
C12_Witness ==
  /\ log = << >>
  /\ replication_parallel > 0
  /\ w_pc = "shutdown_done"

(***************************************************************************)
(* C13: the parallelism never changes after construction; with P = 0 no    *)
(* job is ever in the engine and wait_past_target_lsa never goes to the    *)
(* monitor; with P > 0 wait_past_target_lsa never takes the condition      *)
(* variable path, no step of the producer changes a page, and a page       *)
(* changes only when a worker finishes a job on that page.                 *)
(***************************************************************************)
C13_EnginePresenceFixed ==
  [][ /\ replication_parallel' = replication_parallel
      /\ replication_parallel = 0 =>
           /\ queue' = << >>
           /\ RunningJobs' = {}
           /\ w_pc' # "target_monitor"
      /\ replication_parallel > 0 =>
           /\ w_pc' \notin {"target_blocked", "target_lock"}
           /\ p_pc' # p_pc => pages' = pages
           /\ \A v \in Vpids : pages'[v] # pages[v] =>
                \E w \in Workers : in_progress[w] # NoJob /\ in_progress[w].vpid = v
                                   /\ in_progress'[w] = NoJob ]_vars

\* async: a worker has applied a record while the producer is past it
C13_Witness ==
  /\ replication_parallel > 0
  /\ m_redo_lsa > start_redo_lsa
  /\ engine_is_idle
  /\ \E v \in Vpids : pages[v].applied # << >>
  /\ w_pc = "target_done"

\* sync mode: the producer has run everything the record at lsa asks for
HandledByProducer(lsa) ==
  LET rec == RecordAt(lsa) IN
  /\ IsPageRecord(rec) => lsa \in { pages[TouchedPage(rec)].applied[i] :
                                     i \in 1..Len(pages[TouchedPage(rec)].applied) }
  /\ rec.type = "LOG_DBEXTERN_REDO_DATA" => lsa \in dbextern_done
  /\ (rec.type \in DoneTimeTypes /\ rec.at_time > 0) => lsa \in perf_delay

(***************************************************************************)
(* C14: in sync mode wait_past_target_lsa(L) returns only in a state where *)
(* m_redo_lsa > L, and then the producer has applied every record of the   *)
(* log with lsa <= L.                                                      *)
(***************************************************************************)
C14_SyncWaitPastTarget ==
  [][ (replication_parallel = 0 /\ w_pc # "target_done" /\ w_pc' = "target_done") =>
        /\ m_redo_lsa' > w_target'
        /\ \A lsa \in LogLsas : lsa <= w_target' => (HandledByProducer(lsa))' ]_vars

\* sync: the wait for the second record has returned after the producer applied it
C14_Witness ==
  /\ replication_parallel = 0
  /\ w_pc = "target_done"
  /\ w_target = start_redo_lsa + 1
  /\ IsPageRecord(RecordAt(w_target))

\* the producer adds a job for the record in async mode
MakesJob(rec) == IsPageRecord(rec) \/ rec.type \in DoneTimeTypes

(***************************************************************************)
(* C15: m_redo_lsa changes only in the producer's step that follows the    *)
(* dispatch of the record, with the mutex free for the producer to take,   *)
(* and becomes the record's forw_lsa, which is greater; the monitor's      *)
(* outer value changes only in the step after that and becomes m_redo_lsa; *)
(* a blocked waiter is woken only by the notify step, which comes last.    *)
(* A job enters the engine only in a dispatch step, carries the LSA being  *)
(* dispatched, which is greater than that of every job in the engine, and  *)
(* is there when the step that advances m_redo_lsa becomes enabled.        *)
(***************************************************************************)
C15_ProducerStepOrder ==
  [][ /\ m_redo_lsa' # m_redo_lsa =>
           /\ p_pc = "set_redo_lsa" /\ m_redo_lsa_mutex = "free"
           /\ m_redo_lsa' = RecordAt(m_redo_lsa).forw_lsa
           /\ m_redo_lsa' > m_redo_lsa
           /\ p_pc' = IF replication_parallel > 0 THEN "set_for_outer" ELSE "notify_all"
      /\ (p_pc # "set_redo_lsa" /\ p_pc' = "set_redo_lsa") =>
           /\ p_pc = "dispatch"
           /\ (replication_parallel > 0 /\ MakesJob(RecordAt(m_redo_lsa))) =>
                \E j \in QueuedJobs' : j.log_lsa = m_redo_lsa
      /\ outer_lsa' # outer_lsa =>
           (p_pc = "set_for_outer" /\ outer_lsa' = m_redo_lsa /\ p_pc' = "notify_all")
      /\ (w_pc \in {"shutdown_blocked", "target_blocked"} /\ w_pc' # w_pc) =>
           /\ p_pc = "notify_all"
           /\ replication_parallel > 0 => outer_lsa = m_redo_lsa
      /\ \A j \in QueuedJobs' \ QueuedJobs :
           /\ p_pc = "dispatch"
           /\ j.log_lsa = m_redo_lsa /\ m_redo_lsa' = m_redo_lsa
           /\ \A k \in QueuedJobs \cup RunningJobs : k.log_lsa < j.log_lsa
      /\ IsIncreasing([i \in 1..Len(queue') |-> queue'[i].log_lsa]) ]_vars

\* async: the producer is about to notify after adding the job of the second record
C15_Witness ==
  /\ replication_parallel > 0
  /\ p_pc = "notify_all"
  /\ m_redo_lsa = start_redo_lsa + 2
  /\ outer_lsa = m_redo_lsa
  /\ \E j \in QueuedJobs : j.log_lsa = start_redo_lsa + 1

(***************************************************************************)
(* C16: the handler of a LOG_DBEXTERN_REDO_DATA record runs in the         *)
(* producer's dispatch step of that record, in both modes; no job carries  *)
(* the record's LSA, and the handler has run when the record counts as     *)
(* dispatched, hence before m_redo_lsa advances past it.                   *)
(***************************************************************************)
C16_DbexternSynchronous ==
  [][ /\ dbextern_done' # dbextern_done =>
           /\ p_pc = "dispatch" /\ p_pc' = "set_redo_lsa"
           /\ RecordAt(m_redo_lsa).type = "LOG_DBEXTERN_REDO_DATA"
           /\ dbextern_done' = dbextern_done \cup {m_redo_lsa}
           /\ queue' = queue /\ in_progress' = in_progress
      /\ \A lsa \in LogLsas : RecordAt(lsa).type = "LOG_DBEXTERN_REDO_DATA" =>
           /\ \A j \in QueuedJobs' \cup RunningJobs' : j.log_lsa # lsa
           /\ (Dispatched(lsa))' => lsa \in dbextern_done' ]_vars

\* async: the producer is past a DBEXTERN record whose handler has run
C16_Witness ==
  /\ replication_parallel > 0
  /\ \E lsa \in dbextern_done : lsa < m_redo_lsa

\* the twelve record types the switch of redo_upto handles
HandledRecordTypes ==
  { "LOG_REDO_DATA", "LOG_MVCC_REDO_DATA", "LOG_UNDOREDO_DATA",
    "LOG_DIFF_UNDOREDO_DATA", "LOG_MVCC_UNDOREDO_DATA",
    "LOG_MVCC_DIFF_UNDOREDO_DATA", "LOG_RUN_POSTPONE", "LOG_COMPENSATE",
    "LOG_DBEXTERN_REDO_DATA", "LOG_COMMIT", "LOG_ABORT", "LOG_DUMMY_HA_SERVER_STATE" }

(***************************************************************************)
(* C17: the producer's steps on a record whose type is not one of the      *)
(* twelve handled change no page, add no job, emit no delay sample, run no *)
(* DBEXTERN handler, leave mvcc_next_id alone and raise no fatal error;    *)
(* m_redo_lsa becomes the record's forw_lsa, and nothing ever carries the  *)
(* record's LSA: no job, no delay sample, no handler run.                  *)
(***************************************************************************)
C17_UnhandledTypeOnlyAdvances ==
  [][ /\ ( /\ p_pc \in {"fetch", "dispatch", "set_redo_lsa"}
           /\ p_pc' # p_pc
           /\ RecordAt(m_redo_lsa).type \notin HandledRecordTypes ) =>
             /\ pages' = pages /\ queue' = queue /\ in_progress' = in_progress
             /\ perf_delay' = perf_delay /\ dbextern_done' = dbextern_done
             /\ mvcc_next_id' = mvcc_next_id /\ fatal' = fatal
             /\ outer_lsa' = outer_lsa /\ w_pc' = w_pc
             /\ m_redo_lsa' = IF p_pc = "set_redo_lsa" THEN RecordAt(m_redo_lsa).forw_lsa
                                                       ELSE m_redo_lsa
      /\ \A lsa \in LogLsas : RecordAt(lsa).type \notin HandledRecordTypes =>
           /\ \A j \in QueuedJobs' \cup RunningJobs' : j.log_lsa # lsa
           /\ lsa \notin perf_delay' \cup dbextern_done'
           /\ fatal'.lsa # lsa ]_vars

\* async: the producer has passed a record of an unhandled type and published it
C17_Witness ==
  /\ replication_parallel > 0
  /\ Len(log) >= 1
  /\ log[1].type = "LOG_DUMMY_CRASH_RECOVERY"
  /\ m_redo_lsa = start_redo_lsa + 1
  /\ outer_lsa = m_redo_lsa
  /\ p_pc = "looper"

\* the LSAs of the redos applied to a page
AppliedTo(pgs, vpid) == { pgs[vpid].applied[i] : i \in 1..Len(pgs[vpid].applied) }

\* the job read_and_redo_btree_stats adds for the stats record at lsa
StatsJobOf(lsa) ==
  Job("btree_stats", root_vpid_of(RecordAt(lsa).btid), lsa, RecordAt(lsa).stats, 0)

(***************************************************************************)
(* C18 as claimed: once m_redo_lsa is past a GLOBAL_UNIQUE_STATS_COMMIT    *)
(* record (and, in async mode, the engine is idle), the root page holds    *)
(* the record's stats and its LSA is the record's LSA.                     *)
(***************************************************************************)
C18_StatsRootPageAtRecLsa ==
  \A lsa \in LogLsas :
    ( /\ IsStatsRecord(RecordAt(lsa))
      /\ lsa < m_redo_lsa
      /\ replication_parallel > 0 => engine_is_idle ) =>
        /\ pages[root_vpid_of(RecordAt(lsa).btid)].stats = RecordAt(lsa).stats
        /\ pages[root_vpid_of(RecordAt(lsa).btid)].lsa = lsa

(***************************************************************************)
(* C18 amended: the step that applies a GLOBAL_UNIQUE_STATS_COMMIT record  *)
(* leaves the root page with the record's stats and with the record's LSA; *)
(* in sync mode it is the producer's dispatch step of the record, in async *)
(* mode the step of a worker that holds the job made of the root VPID, the *)
(* record's LSA and the stats. Once the record is dispatched it has been   *)
(* applied to the root page (sync), or it has been applied or its job is   *)
(* in the engine (async), so it has been applied when the engine is idle;  *)
(* from then on the root page's LSA is the record's LSA or that of a later *)
(* record on the same page. No other job carries the record's LSA and the  *)
(* record is applied to no other page.                                     *)
(***************************************************************************)
C18_StatsAppliedToRootPage ==
  [][ \A lsa \in LogLsas : IsStatsRecord(RecordAt(lsa)) =>
        LET rec == RecordAt(lsa)
            root == root_vpid_of(rec.btid)
        IN
        /\ (lsa \notin AppliedTo(pages, root) /\ lsa \in AppliedTo(pages', root)) =>
             /\ pages'[root].stats = rec.stats
             /\ pages'[root].lsa = lsa
             /\ IF replication_parallel > 0
                  THEN \E w \in Workers : in_progress[w] = StatsJobOf(lsa)
                  ELSE p_pc = "dispatch" /\ m_redo_lsa = lsa
        /\ (Dispatched(lsa))' =>
             \/ lsa \in AppliedTo(pages', root)
             \/ /\ replication_parallel > 0
                /\ StatsJobOf(lsa) \in QueuedJobs' \cup RunningJobs'
        /\ lsa \in AppliedTo(pages', root) =>
             /\ pages'[root].lsa >= lsa
             /\ pages'[root].lsa # lsa =>
                  /\ pages'[root].lsa \in LogLsas
                  /\ TouchedPage(RecordAt(pages'[root].lsa)) = root
        /\ \A j \in QueuedJobs' \cup RunningJobs' : j.log_lsa = lsa => j = StatsJobOf(lsa)
        /\ \A v \in Vpids \ {root} : lsa \notin AppliedTo(pages', v) ]_vars

\* async: the root page took the stats record and then a later record
C18_Witness ==
  /\ replication_parallel > 0
  /\ engine_is_idle
  /\ Len(log) = 2
  /\ IsStatsRecord(log[1])
  /\ pages[root_vpid_of(log[1].btid)].applied = << start_redo_lsa, start_redo_lsa + 1 >>
  /\ pages[root_vpid_of(log[1].btid)].stats = log[1].stats

\* the jobs of the engine that carry the LSA lsa
JobsAt(lsa) ==
  Cardinality({ i \in 1..Len(queue) : queue[i].log_lsa = lsa })
    + Cardinality({ w \in Workers : in_progress[w] # NoJob /\ in_progress[w].log_lsa = lsa })

(***************************************************************************)
(* C19: in async mode the dispatch of a COMMIT, ABORT or                   *)
(* DUMMY_HA_SERVER_STATE record adds one job with the sentinel VPID, the   *)
(* record's LSA and the record's timestamp, and emits no sample; a sample  *)
(* appears only in the step of a worker that finishes such a job, for the  *)
(* job's LSA. In sync mode the dispatch adds no job and a sample appears   *)
(* only in the producer's dispatch step, for the record being dispatched,  *)
(* before m_redo_lsa advances. At most one job carries a given LSA, and a  *)
(* job carries the sentinel VPID exactly when it is a delay job of such a  *)
(* record.                                                                 *)
(***************************************************************************)
C19_DelayJobAndSample ==
  [][ /\ ( /\ p_pc = "dispatch" /\ p_pc' # p_pc
           /\ RecordAt(m_redo_lsa).type \in DoneTimeTypes ) =>
             IF replication_parallel > 0
               THEN /\ queue' = Append(queue, Job("repl_delay", SENTINEL_VPID, m_redo_lsa,
                                                  NoStats, RecordAt(m_redo_lsa).at_time))
                    /\ perf_delay' = perf_delay
               ELSE /\ queue' = queue
                    /\ perf_delay' = IF RecordAt(m_redo_lsa).at_time > 0
                                       THEN perf_delay \cup {m_redo_lsa} ELSE perf_delay
      /\ perf_delay' # perf_delay =>
           IF replication_parallel > 0
             THEN /\ p_pc' = p_pc
                  /\ \E w \in Workers :
                       /\ in_progress[w] # NoJob /\ in_progress[w].kind = "repl_delay"
                       /\ in_progress'[w] = NoJob
                       /\ perf_delay' = perf_delay \cup {in_progress[w].log_lsa}
             ELSE /\ p_pc = "dispatch" /\ m_redo_lsa' = m_redo_lsa
                  /\ RecordAt(m_redo_lsa).type \in DoneTimeTypes
                  /\ perf_delay' = perf_delay \cup {m_redo_lsa}
      /\ \A lsa \in LogLsas : JobsAt(lsa)' <= 1
      /\ \A j \in QueuedJobs' \cup RunningJobs' :
           /\ j.vpid = SENTINEL_VPID <=> j.kind = "repl_delay"
           /\ j.kind = "repl_delay" <=> RecordAt(j.log_lsa).type \in DoneTimeTypes ]_vars

\* async: a worker has emitted the sample of a COMMIT record the producer is past
C19_Witness ==
  /\ replication_parallel > 0
  /\ engine_is_idle
  /\ \E lsa \in perf_delay : lsa < m_redo_lsa /\ RecordAt(lsa).type \in DoneTimeTypes

\* the client is inside wait_replication_finish_during_shutdown
InShutdownWait == w_pc \in {"shutdown_blocked", "shutdown_lock", "shutdown_wait_for_idle"}

\* fatal errors of the environment: the root page cannot be fixed, the redo data
\* cannot be decompressed
EnvironmentFatal ==
  fatal.where \in {"cublog::replicate_btree_stats", "replicator::read_and_redo_btree_stats"}

(***************************************************************************)
(* C20: with a well-formed log that stops growing, a scheduled producer    *)
(* and scheduled workers, and pages that can be fixed and data that can be *)
(* decompressed, every call of wait_replication_finish_during_shutdown     *)
(* returns.                                                                *)
(***************************************************************************)
C20_ShutdownWaitReturns ==
  InShutdownWait ~> (w_pc = "shutdown_done" \/ EnvironmentFatal)

====
